---- MODULE Spec2Model ----
(***************************************************************************)
(* A model of aws-permission-tool (src/main.py): the Arn value object, the *)
(* SERVICE_MAP registry, ResourceSearch, get_best_permissions,             *)
(* grant_permissions and the control flow of main().                       *)
(*                                                                         *)
(* Python strings are TLA+ strings; lists and tuples are sequences; dicts  *)
(* are functions from their key set.  An exception is a record             *)
(* [class, msg] whose msg names the raise site.  Remote calls (boto3) are   *)
(* the environment: each call either raises or returns one of a small set  *)
(* of responses.                                                           *)
(***************************************************************************)
EXTENDS Integers, Sequences, FiniteSets, TLC

VARIABLES
    pc,              \* position of the control flow
    arg,             \* argument of the function under study (function-level specifications)
    ret,             \* what that function returned or raised
    argv,            \* parsed command line: [grantees, resources, search]
    grantees,        \* main: list of Arn
    resources,       \* main: list of Arn
    searches,        \* main: list of ResourceSearch
    aws_account_id,  \* main: result of get_aws_account_id()
    si,              \* main: searches already resolved by the first loop
    ri,              \* main: index of the resource being processed (0: none yet)
    gi,              \* main: grantees already granted on resource ri
    permissions,     \* main: result of get_best_permissions(resource)
    calls,           \* every boto3 call made so far, in order
    stdout,          \* lines printed to standard output
    stderr,          \* lines printed to standard error
    error            \* the exception that ended the run, or None

vars == <<pc, arg, ret, argv, grantees, resources, searches, aws_account_id,
          si, ri, gi, permissions, calls, stdout, stderr, error>>

mainVars == <<argv, grantees, resources, searches, aws_account_id,
              si, ri, gi, permissions, calls, stdout, stderr, error>>

None == [class |-> "NoneType"]

\* an exception object; msg names the message of the raise site
Exc(class, msg) == [class |-> class, msg |-> msg]

\* the two ways a call ends
Return(v) == [raised |-> FALSE, value |-> v]

Raise(e) == [raised |-> TRUE, value |-> e]

(***************************************************************************)
(* Bounds of the model.                                                    *)
(***************************************************************************)
MaxTail == 6        \* colon-delimited segments after the first two of a raw identifier
MaxRecords == 3     \* records in a listing response
MaxBlocks == 3      \* permission blocks in a describe response
MaxActions == 2     \* actions in one permission block
MaxItems == 3       \* identifiers and searches on one command line

SeqsUpTo(S, n) == UNION {[1..k -> S] : k \in 0..n}

Min(S) == CHOOSE x \in S : \A y \in S : x <= y

(***************************************************************************)
(* str.split, str.join, substring test                                     *)
(***************************************************************************)
\* the least index >= i at which character c occurs in s, 0 if there is none
FindFrom(s, c, i) ==
    LET hits == {j \in i..Len(s) : SubSeq(s, j, j) = c}
    IN  IF hits = {} THEN 0 ELSE Min(hits)

\* the k-th least element of a set of numbers
Kth(S, k) == CHOOSE p \in S : Cardinality({q \in S : q < p}) = k - 1

\* s.split(sep, maxsplit) for a one-character sep; maxsplit = -1: no limit.
\* The string is cut at its first n separators, n the lesser of maxsplit and
\* their number.
Split(s, sep, maxsplit) ==
    LET seps == {j \in 1..Len(s) : SubSeq(s, j, j) = sep}
        n == IF maxsplit < 0 \/ maxsplit > Cardinality(seps)
             THEN Cardinality(seps) ELSE maxsplit
    IN  [k \in 1..(n + 1) |->
            SubSeq(s, IF k = 1 THEN 1 ELSE Kth(seps, k - 1) + 1,
                      IF k = n + 1 THEN Len(s) ELSE Kth(seps, k) - 1)]

RECURSIVE Join(_, _)
\* sep.join(parts)
Join(parts, sep) ==
    IF parts = <<>> THEN ""
    ELSE IF Len(parts) = 1 THEN parts[1]
    ELSE parts[1] \o sep \o Join(Tail(parts), sep)

\* a in b, for two strings
IsSubstring(a, b) ==
    \E i \in 1..(Len(b) + 1) :
        /\ i + Len(a) - 1 <= Len(b)
        /\ SubSeq(b, i, i + Len(a) - 1) = a

(***************************************************************************)
(* class Arn                                                               *)
(***************************************************************************)
\* resource.split('/', 1) of the one-token resource descriptor
SplitResource(resource) == Split(resource, "/", 1)

\* a faulty variant of IsAwsPrefix: only the first token is checked
IsAwsPrefixArnOnly(const, partition) == const = "arn"

\* the negation of the test of line 64
IsAwsPrefix(const, partition) == const = "arn" /\ partition = "aws"

\* Arn.__init__: returns the constructed object, or raises
ArnInit(arn) ==
    LET parts == Split(arn, ":", -1)
    IN  IF Len(parts) < 5 THEN Raise(Exc("ValueError", "Invalid ARN"))
        ELSE IF ~IsAwsPrefix(parts[1], parts[2])
        THEN Raise(Exc("ValueError", "is not an AWS ARN"))
        ELSE
            LET resource == SubSeq(parts, 6, Len(parts))
                bad == Raise(Exc("ValueError",
                                 "Invalid resource-type and resource-id specification"))
                mk(t, i) == Return([class |-> "Arn", const |-> parts[1],
                                    partition |-> parts[2], service |-> parts[3],
                                    region |-> parts[4], account_id |-> parts[5],
                                    resource_type |-> t, resource_id |-> i])
            IN  IF Len(resource) = 1
                THEN LET ti == SplitResource(resource[1])
                     IN  IF Len(ti) = 2 THEN mk(ti[1], ti[2]) ELSE bad
                ELSE IF Len(resource) = 2
                THEN mk(resource[1], resource[2])
                ELSE bad

\* Arn.__str__
ArnStr(self) ==
    self.const \o ":" \o self.partition \o ":" \o self.service \o ":" \o self.region
    \o ":" \o self.account_id \o ":" \o self.resource_type \o "/" \o self.resource_id

(***************************************************************************)
(* The state main() starts from; the function-level specifications keep it. *)
(***************************************************************************)
NoArgs == [grantees |-> <<>>, resources |-> <<>>, search |-> <<>>]

MainIdle ==
    /\ grantees = <<>>
    /\ resources = <<>>
    /\ searches = <<>>
    /\ aws_account_id = ""
    /\ si = 0
    /\ ri = 0
    /\ gi = 0
    /\ permissions = <<>>
    /\ calls = <<>>
    /\ stdout = <<>>
    /\ stderr = <<>>
    /\ error = None

(***************************************************************************)
(* Specification SpecArn: Arn(raw), then str() of the object and Arn() of  *)
(* that string.  A raw string is at most two head words and at most        *)
(* MaxTail tail words joined by colons.                                    *)
(***************************************************************************)
HeadWords == {"arn", "aws", "x"}

TailWords == {"", "t", "t/i", "t/i/j"}

RawArns ==
    {Join(h \o t, ":") : h \in SeqsUpTo(HeadWords, 2), t \in SeqsUpTo(TailWords, MaxTail)}

InitArn ==
    /\ pc = "arn_call"
    /\ arg \in RawArns
    /\ ret = None
    /\ argv = NoArgs
    /\ MainIdle

\* Arn(arg)
ArnNew ==
    /\ pc = "arn_call"
    /\ ret' = [obj |-> ArnInit(arg)]
    /\ pc' = IF ArnInit(arg).raised THEN "arn_raised" ELSE "arn_made"
    /\ UNCHANGED <<arg, mainVars>>

\* str(obj), then Arn(str(obj))
ArnReparse ==
    /\ pc = "arn_made"
    /\ ret' = [obj |-> ret.obj, str |-> ArnStr(ret.obj.value),
               again |-> ArnInit(ArnStr(ret.obj.value))]
    /\ pc' = "arn_reparsed"
    /\ UNCHANGED <<arg, mainVars>>

NextArn == ArnNew \/ ArnReparse

SpecArn == InitArn /\ [][NextArn]_vars

\* C1: for every Identifier I that Arn() makes of an accepted string, in slash
\* form or in colon form, Arn(str(I)) is made and equals I field by field.
C1_RoundTrip ==
    pc = "arn_reparsed" => /\ ~ret.again.raised
                           /\ ret.again.value = ret.obj.value

\* The segments of the raw string, and the three shapes C2 says are rejected.
Segs(s) == Split(s, ":", -1)

MissingPrefix(s) == Len(Segs(s)) < 2 \/ Segs(s)[1] # "arn" \/ Segs(s)[2] # "aws"

TooFewSegments(s) == Len(Segs(s)) < 6

BadDescriptor(s) ==
    /\ Len(Segs(s)) >= 6
    /\ ~(Len(Segs(s)) = 6 /\ FindFrom(Segs(s)[6], "/", 1) > 0)
    /\ Len(Segs(s)) # 7

\* C2: Arn() raises, and makes no object, for every string that lacks the
\* 'arn', 'aws' prefix, or has fewer than 6 colon-delimited segments, or
\* whose resource descriptor is neither one token holding a slash nor
\* exactly two colon-delimited tokens.
C2_ParseRejects ==
    (pc # "arn_call" /\ (MissingPrefix(arg) \/ TooFewSegments(arg) \/ BadDescriptor(arg)))
        => /\ pc = "arn_raised"
           /\ ret.obj.raised
           /\ ret.obj.value.class = "ValueError"

\* C2's case: a string with the prefix and six segments or more is rejected
\* for its resource descriptor alone.
C2_Witness ==
    /\ pc = "arn_raised"
    /\ ~MissingPrefix(arg)
    /\ BadDescriptor(arg)
    /\ Len(Segs(arg)) >= 8

(***************************************************************************)
(* SERVICE_MAP                                                             *)
(***************************************************************************)
Entry(fn, key, params) == [fn |-> fn, key |-> key, params |-> params]

SERVICE_MAP ==
    [quicksight |->
        ("list" :>
            [user |-> Entry("list_users", "UserList", {"AwsAccountId", "Namespace"}),
             dataset |-> Entry("list_data_sets", "DataSetSummaries", {"AwsAccountId"}),
             datasource |-> Entry("list_data_sources", "DataSources", {"AwsAccountId"})])
        @@ ("desc-perms" :>
            [dataset |-> Entry("describe_data_set_permissions", "Permissions",
                               {"AwsAccountId", "DataSetId"}),
             datasource |-> Entry("describe_data_source_permissions", "Permissions",
                                  {"AwsAccountId", "DataSourceId"})])
        @@ ("grant-perms" :>
            [dataset |-> Entry("update_data_set_permissions", "Status",
                               {"AwsAccountId", "DataSetId", "GrantPermissions"}),
             datasource |-> Entry("update_data_source_permissions", "Status",
                                  {"AwsAccountId", "DataSourceId", "GrantPermissions"})])
        @@ ("grantees" :> "user")]

(***************************************************************************)
(* class ResourceSearch                                                    *)
(***************************************************************************)
\* a dict without some of its keys
Without(d, keys) == [k \in (DOMAIN d) \ keys |-> d[k]]

\* a faulty variant of IsGrantee: the 'list' table is read instead of 'grantees'
IsGranteeListable(service, type) == type \in DOMAIN SERVICE_MAP[service]["list"]

\* self.type in SERVICE_MAP[self.service]['grantees'], a string: line 99
IsGrantee(service, type) == IsSubstring(type, SERVICE_MAP[service]["grantees"])

\* a faulty variant of SupportError: the two checks of lines 100-103 are left out
SupportErrorNone(service, type) == None

\* the checks of lines 96-103: the exception raised, or None
SupportError(service, type) ==
    LET is_listable == type \in DOMAIN SERVICE_MAP[service]["list"]
        is_describable == type \in DOMAIN SERVICE_MAP[service]["desc-perms"]
        is_updatable == type \in DOMAIN SERVICE_MAP[service]["grant-perms"]
        is_grantee == IsGrantee(service, type)
    IN  IF ~is_listable
        THEN Exc("KeyError", "is not supported for search")
        ELSE IF ~is_grantee /\ (~is_describable \/ ~is_updatable)
        THEN Exc("KeyError", "is not supported as a resource")
        ELSE None

\* ResourceSearch.__init__
ResourceSearchInit(kv_dict) ==
    IF ~({"service", "type"} \subseteq DOMAIN kv_dict)
    THEN Raise(Exc("KeyError", "Both service and type must be specified"))
    ELSE LET kwargs == Without(kv_dict, {"service", "type"})
             service == kv_dict["service"]
             type == kv_dict["type"]
         IN  IF DOMAIN kwargs = {}
             THEN Raise(Exc("ValueError", "must specify at least one searchable attribute"))
             ELSE IF service \notin DOMAIN SERVICE_MAP
             THEN Raise(Exc("KeyError", service))
             ELSE IF SupportError(service, type) # None
             THEN Raise(SupportError(service, type))
             ELSE Return([class |-> "ResourceSearch", kwargs |-> kwargs,
                          service |-> service, type |-> type,
                          is_grantee |-> IsGrantee(service, type)])

\* a faulty variant of Matches: a criteria key the record lacks is ignored
MatchesPresentKeys(entity, kwargs) ==
    \A key \in DOMAIN kwargs : key \in DOMAIN entity => entity[key] = kwargs[key]

\* all(entity.get(key) == value for key, value in self.kwargs.items())
Matches(entity, kwargs) ==
    \A key \in DOMAIN kwargs : key \in DOMAIN entity /\ entity[key] = kwargs[key]

\* lines 113-124 of find_arn, on the data the list call returned
FindArn(self, data) ==
    LET matches == SelectSeq(data, LAMBDA entity : Matches(entity, self.kwargs))
    IN  IF matches = <<>> THEN Raise(Exc("ValueError", "No matches"))
        ELSE IF Len(matches) > 1 THEN Raise(Exc("ValueError", "Multiple matches"))
        ELSE IF "Arn" \notin DOMAIN matches[1] THEN Raise(Exc("KeyError", "Arn"))
        ELSE Return(matches[1]["Arn"])

\* what find_arn prints: every match, when there are several (lines 119-121)
FindArnPrints(self, data) ==
    LET matches == SelectSeq(data, LAMBDA entity : Matches(entity, self.kwargs))
    IN  IF Len(matches) > 1 THEN matches ELSE <<>>

(***************************************************************************)
(* get_best_permissions: the selection loop                                *)
(***************************************************************************)
\* a faulty variant of Better: a tie replaces the current best
BetterOrEqual(actions, best_permissions) == Len(actions) >= Len(best_permissions)

\* the test of line 182
Better(actions, best_permissions) == Len(actions) > Len(best_permissions)

RECURSIVE BestFrom(_, _)
\* the loop of lines 180-183 with best_permissions as it stands
BestFrom(data, best_permissions) ==
    IF data = <<>> THEN best_permissions
    ELSE BestFrom(Tail(data),
                  IF Better(Head(data).Actions, best_permissions)
                  THEN Head(data).Actions
                  ELSE best_permissions)

\* lines 179-185
BestPermissions(data) == BestFrom(data, <<>>)

(***************************************************************************)
(* Specification SpecFind: find_arn on every listing of at most MaxRecords *)
(* records, for every search over the attributes Email and Role.           *)
(***************************************************************************)
UserArns == {"arn:aws:quicksight:us:1:user/default/ann",
             "arn:aws:quicksight:us:1:user/default/bob"}

\* a listed record: its Arn, and the attributes it has ("" : it has none)
Record(a, email, role) ==
    [k \in {"Arn"} \cup (IF email = "" THEN {} ELSE {"Email"})
                   \cup (IF role = "" THEN {} ELSE {"Role"}) |->
        CASE k = "Arn" -> a
          [] k = "Email" -> email
          [] k = "Role" -> role]

Records == {Record(a, e, r) : a \in UserArns, e \in {"", "a@x", "A@x"}, r \in {"", "ADMIN"}}

\* the key=value dicts of the searches for a user
UserSearchDicts ==
    {[k \in {"service", "type"} \cup ks |->
        CASE k = "service" -> "quicksight"
          [] k = "type" -> "user"
          [] k = "Email" -> e
          [] k = "Role" -> "ADMIN"] :
     ks \in (SUBSET {"Email", "Role"}) \ {{}}, e \in {"a@x", "A@x"}}

InitFind ==
    /\ pc = "find_call"
    /\ arg \in [self : {ResourceSearchInit(d).value : d \in UserSearchDicts},
                data : SeqsUpTo(Records, MaxRecords)]
    /\ ret = None
    /\ argv = NoArgs
    /\ MainIdle

\* the filter of find_arn on the listing
FindCall ==
    /\ pc = "find_call"
    /\ ret' = FindArn(arg.self, arg.data)
    /\ stdout' = FindArnPrints(arg.self, arg.data)
    /\ pc' = "find_done"
    /\ UNCHANGED <<arg, argv, grantees, resources, searches, aws_account_id,
                   si, ri, gi, permissions, calls, stderr, error>>

NextFind == FindCall

SpecFind == InitFind /\ [][NextFind]_vars

\* the positions of the records that have every criteria attribute with an equal value
MatchingPositions ==
    {i \in 1..Len(arg.data) :
        \A key \in DOMAIN arg.self.kwargs :
            /\ key \in DOMAIN arg.data[i]
            /\ arg.data[i][key] = arg.self.kwargs[key]}

\* C3: find_arn returns the identifier of the matching record when exactly one
\* record matches; it raises 'No matches' when none does and 'Multiple matches'
\* when two or more do, and then returns no identifier.
C3_ResolverUniqueness ==
    pc = "find_done" =>
        /\ Cardinality(MatchingPositions) = 1 =>
              ret = Return(arg.data[CHOOSE i \in MatchingPositions : TRUE]["Arn"])
        /\ Cardinality(MatchingPositions) = 0 =>
              ret = Raise(Exc("ValueError", "No matches"))
        /\ Cardinality(MatchingPositions) >= 2 =>
              ret = Raise(Exc("ValueError", "Multiple matches"))

\* C3's case: one record of three matches a two-attribute search, and a record
\* that lacks one of the attributes does not.
C3_Witness ==
    /\ pc = "find_done"
    /\ Len(arg.data) = 3
    /\ Cardinality(MatchingPositions) = 1
    /\ Cardinality(DOMAIN arg.self.kwargs) = 2
    /\ \E i \in 1..3 : DOMAIN arg.data[i] = {"Arn", "Email"}
    /\ ~ret.raised

(***************************************************************************)
(* Specification SpecBest: the selection of get_best_permissions on every  *)
(* describe response of at most MaxBlocks blocks of at most MaxActions     *)
(* actions.                                                                *)
(***************************************************************************)
Actions == {"quicksight:DescribeDataSet", "quicksight:UpdateDataSet"}

Principals == {"arn:aws:quicksight:us:1:user/default/ann"}

Blocks == [Principal : Principals, Actions : SeqsUpTo(Actions, MaxActions)]

InitBest ==
    /\ pc = "best_call"
    /\ arg \in SeqsUpTo(Blocks, MaxBlocks)
    /\ ret = None
    /\ argv = NoArgs
    /\ MainIdle

BestCall ==
    /\ pc = "best_call"
    /\ ret' = BestPermissions(arg)
    /\ pc' = "best_done"
    /\ UNCHANGED <<arg, mainVars>>

NextBest == BestCall

SpecBest == InitBest /\ [][NextBest]_vars

\* the greatest number of actions of a block
MaxCount == CHOOSE n \in 0..(MaxActions + 1) :
                /\ \A i \in 1..Len(arg) : Len(arg[i].Actions) <= n
                /\ \E i \in 1..Len(arg) : Len(arg[i].Actions) = n

\* C4: the selection returns the action list of the first block, in the
\* returned order, among those with the greatest number of actions; for no
\* blocks at all it returns the empty list.
C4_BestSelection ==
    pc = "best_done" =>
        IF arg = <<>> THEN ret = <<>>
        ELSE ret = arg[Min({i \in 1..Len(arg) : Len(arg[i].Actions) = MaxCount})].Actions

\* C4's case: two blocks tie for the greatest number of actions with different
\* lists, after a smaller block, and the first of the two is returned.
C4_Witness ==
    /\ pc = "best_done"
    /\ Len(arg) = 3
    /\ Len(arg[1].Actions) < Len(arg[2].Actions)
    /\ Len(arg[2].Actions) = Len(arg[3].Actions)
    /\ arg[2].Actions # arg[3].Actions
    /\ ret = arg[2].Actions

(***************************************************************************)
(* _flatten, _key_value_pairs_to_dicts                                     *)
(***************************************************************************)
RECURSIVE Flatten(_)
Flatten(lst) == IF lst = <<>> THEN <<>> ELSE Head(lst) \o Flatten(Tail(lst))

\* dict(zip(parts[::2], parts[1::2])): a later pair replaces an earlier one
DictOfParts(parts) ==
    LET n == Len(parts) \div 2
    IN  [k \in {parts[2 * j - 1] : j \in 1..n} |->
            parts[2 * (CHOOSE j \in 1..n :
                          /\ parts[2 * j - 1] = k
                          /\ \A h \in 1..n : parts[2 * h - 1] = k => h <= j)]]

KeyValuePairsToDicts(kvps) ==
    [i \in 1..Len(kvps) |->
        DictOfParts(Flatten([j \in 1..Len(kvps[i]) |-> Split(kvps[i][j], "=", -1)]))]

(***************************************************************************)
(* _make_api_call and the boto3 clients                                    *)
(***************************************************************************)
\* the three lookups of lines 147-149: the registry entry, or KeyError
ApiEntry(service, resource_type, verb) ==
    IF service \notin DOMAIN SERVICE_MAP THEN Raise(Exc("KeyError", service))
    ELSE IF resource_type \notin DOMAIN SERVICE_MAP[service][verb]
    THEN Raise(Exc("KeyError", resource_type))
    ELSE Return(SERVICE_MAP[service][verb][resource_type])

\* line 151
FilterParams(api_params, use_params) ==
    [key \in (DOMAIN api_params) \cap use_params |-> api_params[key]]

\* lines 156-161 on what the client call returned or raised
ApiData(response, use_key) ==
    IF response.raised THEN response
    ELSE IF use_key \in DOMAIN response.value THEN Return(response.value[use_key])
    ELSE Raise(Exc("KeyError", use_key))

UserRecord(name, email) ==
    [Arn |-> "arn:aws:quicksight:us:1:user/default/" \o name, Email |-> email]

DataSetRecord(id, name) ==
    [Arn |-> "arn:aws:quicksight:us:1:dataset/" \o id, Name |-> name]

ReadBlock == [Principal |-> "arn:aws:quicksight:us:1:user/default/own",
              Actions |-> <<"quicksight:DescribeDataSet">>]

WriteBlock == [Principal |-> "arn:aws:quicksight:us:1:user/default/adm",
               Actions |-> <<"quicksight:DescribeDataSet", "quicksight:UpdateDataSet">>]

\* what the remote operation fn may answer: it raises, or returns a response dict
Responses(fn) ==
    {Raise(Exc("ClientError", fn))} \cup
    {Return(d) : d \in
        CASE fn = "get_caller_identity" -> {[Account |-> "1"]}
          [] fn = "list_users" ->
                {[ResponseMetadata |-> <<>>]} \cup
                {[UserList |-> l] : l \in {<<>>,
                                           <<UserRecord("ann", "a@x")>>,
                                           <<UserRecord("bob", "b@x"), UserRecord("ann", "a@x")>>,
                                           <<UserRecord("ann", "a@x"), UserRecord("amy", "a@x")>>}}
          [] fn = "list_data_sets" ->
                {[DataSetSummaries |-> l] :
                    l \in {<<>>, <<DataSetRecord("d2", "sales")>>,
                           <<DataSetRecord("d2", "sales"), DataSetRecord("d3", "sales")>>}}
          [] fn = "list_data_sources" -> {[DataSources |-> <<>>]}
          [] fn \in {"describe_data_set_permissions", "describe_data_source_permissions"} ->
                {[Permissions |-> l] : l \in {<<>>, <<ReadBlock>>, <<ReadBlock, WriteBlock>>}}
          [] OTHER -> {[Status |-> 200], [Status |-> 403]}}

\* _make_api_call when the client answers response: the boto3 calls made and
\* what _make_api_call returns or raises
MakeApiCall(service, resource_type, verb, api_params, response) ==
    LET entry == ApiEntry(service, resource_type, verb)
    IN  IF entry.raised THEN [calls |-> <<>>, result |-> entry]
        ELSE [calls |-> <<[client |-> service, verb |-> verb, fn |-> entry.value.fn,
                           params |-> FilterParams(api_params, entry.value.params),
                           result |-> response]>>,
              result |-> ApiData(response, entry.value.key)]

\* the answers the environment may give to that call
ResponsesTo(service, resource_type, verb) ==
    IF ApiEntry(service, resource_type, verb).raised THEN {None}
    ELSE Responses(ApiEntry(service, resource_type, verb).value.fn)

\* the api_params of find_arn (lines 107-110)
ListParams(account) == [AwsAccountId |-> account, Namespace |-> "default"]

\* the api_params of get_best_permissions (lines 170-175)
DescribeParams(arn) ==
    [AwsAccountId |-> arn.account_id, Namespace |-> "default",
     DataSetId |-> arn.resource_id, DataSourceId |-> arn.resource_id]

\* the api_params of grant_permissions (lines 190-199)
GrantParams(resource, actions, grantee) ==
    [AwsAccountId |-> resource.account_id, Namespace |-> "default",
     DataSetId |-> resource.resource_id, DataSourceId |-> resource.resource_id,
     GrantPermissions |-> <<[Principal |-> ArnStr(grantee), Actions |-> actions]>>]

(***************************************************************************)
(* main()                                                                  *)
(***************************************************************************)
\* a list comprehension whose elements rs were made in order: the list of
\* their values, or the first exception raised
ListOrRaise(rs) ==
    LET bad == {i \in 1..Len(rs) : rs[i].raised}
    IN  IF bad = {} THEN Return([i \in 1..Len(rs) |-> rs[i].value])
        ELSE rs[Min(bad)]

\* [Arn(x) for x in args]: lines 243-244
Arns(args) == ListOrRaise([i \in 1..Len(args) |-> ArnInit(args[i])])

\* [ResourceSearch(d) for d in _key_value_pairs_to_dicts(args)]: line 245
Searches(args) ==
    ListOrRaise([i \in 1..Len(args) |-> ResourceSearchInit(KeyValuePairsToDicts(args)[i])])

\* a faulty variant of NothingToDo: the test is left out
NothingToDoNever(gs, rs, ss) == FALSE

\* not any((grantees, resources, searches)): line 247
NothingToDo(gs, rs, ss) == ~(gs # <<>> \/ rs # <<>> \/ ss # <<>>)

\* an exception nobody catches ends the run; raised_at is where main() was
Uncaught(exc, at) == [class |-> exc.class, msg |-> exc.msg, raised_at |-> at]

\* a faulty variant of AfterCall: the exception is recorded and the run goes on
AfterCallSwallowed(result, next) == next

\* where main() goes after a call that may raise: nothing catches
AfterCall(result, next) == IF result.raised THEN "failed" ELSE next

\* where main() goes once the searches are resolved: the loop of line 259
AfterSearches(rs) == IF rs = <<>> THEN "finish" ELSE "describe"

\* the test of line 254
RouteToGrantees(search) == search.is_grantee

\* a faulty variant of AssignPermissions: the first resource's permissions are kept
AssignPermissionsOnce(previous, best, n) == IF n = 0 THEN best ELSE previous

\* line 261: permissions of the resource after n earlier ones
AssignPermissions(previous, best, n) == best

\* a faulty variant of StatusMessages: an unexpected status raises
StatusMessagesRaising(status, resource, grantee) ==
    IF status # 200
    THEN [stderr |-> <<>>, raised |-> TRUE, value |-> Exc("RuntimeError", "Unexpected status")]
    ELSE [stderr |-> <<>>, raised |-> FALSE, value |-> None]

\* lines 264-266: what is printed to standard error, and nothing is raised
StatusMessages(status, resource, grantee) ==
    [stderr |-> IF status # 200
                THEN <<[msg |-> "Unexpected status", status |-> status,
                        resource |-> ArnStr(resource), grantee |-> ArnStr(grantee)]>>
                ELSE <<>>,
     raised |-> FALSE, value |-> None]

ArnInputs == {"arn:aws:quicksight:us:1:user/default/ann",
              "arn:aws:quicksight:us:1:datasource:s1",
              "arn:aws:s3:::bucket"}

SearchInputs == {<<"service=quicksight", "type=user", "Email=a@x">>,
                 <<"service=quicksight", "type=dataset", "Name=sales">>,
                 <<"service=quicksight", "type=group", "GroupName=g">>,
                 <<"service=quicksight", "type=se", "Email=a@x">>,
                 <<"service=quicksight", "Email=a@x">>,
                 <<"service=quicksight", "type=user">>,
                 <<"service=s3", "type=user", "Email=a@x">>}

\* the command lines of at most MaxItems identifiers and searches
CommandLines ==
    UNION {[grantees : [1..n[1] -> ArnInputs],
            resources : [1..n[2] -> ArnInputs],
            search : [1..n[3] -> SearchInputs]] :
           n \in {m \in (0..MaxItems) \X (0..MaxItems) \X (0..MaxItems) :
                     m[1] + m[2] + m[3] <= MaxItems}}

Init ==
    /\ pc = "main"
    /\ arg = None
    /\ ret = None
    /\ argv \in CommandLines
    /\ MainIdle

\* lines 241-248: the arguments become Arn and ResourceSearch objects
MainParse ==
    /\ pc = "main"
    /\ \E gs \in {Arns(argv.grantees)}, rs \in {Arns(argv.resources)},
          ss \in {Searches(argv.search)} :
          \E result \in {IF gs.raised THEN gs
                         ELSE IF rs.raised THEN rs
                         ELSE IF ss.raised THEN ss
                         ELSE IF NothingToDo(gs.value, rs.value, ss.value)
                         THEN Raise(Exc("RuntimeError", "Nothing to do"))
                         ELSE Return(None)} :
             /\ pc' = AfterCall(result, "identity")
             /\ error' = IF result.raised THEN Uncaught(result.value, pc) ELSE None
             /\ grantees' = IF gs.raised THEN <<>> ELSE gs.value
             /\ resources' = IF gs.raised \/ rs.raised THEN <<>> ELSE rs.value
             /\ searches' = IF gs.raised \/ rs.raised \/ ss.raised THEN <<>> ELSE ss.value
    /\ UNCHANGED <<arg, ret, argv, aws_account_id, si, ri, gi, permissions, calls,
                   stdout, stderr>>

\* line 250: get_aws_account_id()
MainGetAccountId ==
    /\ pc = "identity"
    /\ \E response \in Responses("get_caller_identity") :
          /\ calls' = Append(calls, [client |-> "sts", verb |-> "identity",
                                     fn |-> "get_caller_identity", params |-> <<>>,
                                     result |-> response])
          /\ pc' = AfterCall(response,
                             IF searches = <<>> THEN AfterSearches(resources) ELSE "search")
          /\ error' = IF response.raised THEN Uncaught(response.value, pc) ELSE error
          /\ aws_account_id' = IF response.raised THEN aws_account_id
                               ELSE response.value["Account"]
    /\ UNCHANGED <<arg, ret, argv, grantees, resources, searches, si, ri, gi,
                   permissions, stdout, stderr>>

\* lines 252-257: one iteration of the loop over the searches
MainSearch ==
    /\ pc = "search"
    /\ LET search == searches[si + 1]
       IN  \E response \in ResponsesTo(search.service, search.type, "list") :
              LET api == MakeApiCall(search.service, search.type, "list",
                                     ListParams(aws_account_id), response)
                  found == IF api.result.raised THEN api.result
                           ELSE FindArn(search, api.result.value)
                  result == IF found.raised THEN found ELSE ArnInit(found.value)
                  gs == IF ~result.raised /\ RouteToGrantees(search)
                        THEN Append(grantees, result.value) ELSE grantees
                  rs == IF ~result.raised /\ ~RouteToGrantees(search)
                        THEN Append(resources, result.value) ELSE resources
              IN  /\ calls' = calls \o api.calls
                  /\ stdout' = stdout \o (IF api.result.raised THEN <<>>
                                          ELSE FindArnPrints(search, api.result.value))
                  /\ error' = IF result.raised THEN Uncaught(result.value, pc) ELSE error
                  /\ grantees' = gs
                  /\ resources' = rs
                  /\ si' = IF result.raised THEN si ELSE si + 1
                  /\ pc' = AfterCall(result, IF si + 1 < Len(searches) THEN "search"
                                             ELSE AfterSearches(rs))
    /\ UNCHANGED <<arg, ret, argv, searches, aws_account_id, ri, gi, permissions, stderr>>

\* lines 259-261: the next resource is announced and its permissions are read
MainDescribe ==
    /\ pc = "describe"
    /\ LET resource == resources[ri + 1]
       IN  \E response \in ResponsesTo(resource.service, resource.resource_type, "desc-perms") :
              LET api == MakeApiCall(resource.service, resource.resource_type, "desc-perms",
                                     DescribeParams(resource), response)
              IN  /\ calls' = calls \o api.calls
                  /\ stdout' = Append(stdout, "Processing " \o ArnStr(resource))
                  /\ error' = IF api.result.raised THEN Uncaught(api.result.value, pc)
                              ELSE error
                  /\ permissions' = IF api.result.raised THEN permissions
                                    ELSE AssignPermissions(permissions,
                                                           BestPermissions(api.result.value), ri)
                  /\ ri' = ri + 1
                  /\ gi' = 0
                  /\ pc' = AfterCall(api.result,
                                     IF grantees # <<>> THEN "grant"
                                     ELSE IF ri + 1 < Len(resources) THEN "describe"
                                     ELSE "finish")
    /\ UNCHANGED <<arg, ret, argv, grantees, resources, searches, aws_account_id, si, stderr>>

\* lines 262-266: one iteration of the loop over the grantees
MainGrant ==
    /\ pc = "grant"
    /\ LET resource == resources[ri]
           grantee == grantees[gi + 1]
       IN  \E response \in ResponsesTo(resource.service, resource.resource_type, "grant-perms") :
              LET api == MakeApiCall(resource.service, resource.resource_type, "grant-perms",
                                     GrantParams(resource, permissions, grantee), response)
                  after == IF api.result.raised THEN api.result
                           ELSE StatusMessages(api.result.value, resource, grantee)
              IN  /\ calls' = calls \o api.calls
                  /\ stderr' = stderr \o (IF api.result.raised THEN <<>> ELSE after.stderr)
                  /\ error' = IF after.raised THEN Uncaught(after.value, pc) ELSE error
                  /\ gi' = gi + 1
                  /\ pc' = AfterCall(after,
                                     IF gi + 1 < Len(grantees) THEN "grant"
                                     ELSE IF ri < Len(resources) THEN "describe"
                                     ELSE "finish")
    /\ UNCHANGED <<arg, ret, argv, grantees, resources, searches, aws_account_id, si, ri,
                   permissions, stdout>>

\* line 268
MainFinish ==
    /\ pc = "finish"
    /\ stdout' = Append(stdout, "Done!")
    /\ pc' = "done"
    /\ UNCHANGED <<arg, ret, argv, grantees, resources, searches, aws_account_id,
                   si, ri, gi, permissions, calls, stderr, error>>

Next ==
    \/ MainParse
    \/ MainGetAccountId
    \/ MainSearch
    \/ MainDescribe
    \/ MainGrant
    \/ MainFinish

Spec == Init /\ [][Next]_vars

\* main() is one sequential process: once the searches are resolved it takes
\* the next step of its loops (lines 259-268) while it has one
FairSpec ==
    Spec /\ WF_vars(MainDescribe) /\ WF_vars(MainGrant) /\ WF_vars(MainFinish)

(***************************************************************************)
(* Properties of main()                                                    *)
(***************************************************************************)
Failed == error # None

FailedAt(places) == Failed /\ error.raised_at \in places

CallsOf(verbs) == SelectSeq(calls, LAMBDA c : c.verb \in verbs)

\* the resource a describe or grant call names
ResourceOf(call) ==
    [account |-> call.params["AwsAccountId"],
     id |-> IF "DataSetId" \in DOMAIN call.params THEN call.params["DataSetId"]
            ELSE call.params["DataSourceId"]]

\* C5: main() does not go past the resolution of the searches with an empty
\* resource list and an empty grantee list; a run with no resources, no
\* grantees and no searches fails with 'Nothing to do' and makes no describe
\* or grant call (no remote call at all).
C5_NothingToDo ==
    /\ (pc \in {"describe", "grant", "finish", "done"} \/ FailedAt({"describe", "grant"}))
          => (grantees # <<>> \/ resources # <<>>)
    /\ (argv = NoArgs /\ pc # "main")
          => /\ pc = "failed"
             /\ error = Uncaught(Exc("RuntimeError", "Nothing to do"), "main")
             /\ calls = <<>>

C5_Witness ==
    /\ argv = NoArgs
    /\ pc = "failed"
    /\ error.msg = "Nothing to do"

\* the (resource, principal) pairs of the grant calls made, in order
GrantAttempts ==
    LET gc == CallsOf({"grant-perms"})
    IN  [k \in 1..Len(gc) |->
            <<ResourceOf(gc[k]), gc[k].params["GrantPermissions"][1].Principal>>]

\* resources x grantees, resource by resource
Product ==
    [k \in 1..(Len(resources) * Len(grantees)) |->
        <<[account |-> resources[((k - 1) \div Len(grantees)) + 1].account_id,
           id |-> resources[((k - 1) \div Len(grantees)) + 1].resource_id],
          ArnStr(grantees[((k - 1) % Len(grantees)) + 1])>>]

\* the grant calls that returned a status other than 200
Rejected ==
    SelectSeq(CallsOf({"grant-perms"}),
              LAMBDA c : ~c.result.raised /\ "Status" \in DOMAIN c.result.value
                         /\ c.result.value["Status"] # 200)

C7_FailFast ==
    FailedAt({"main", "search"}) => /\ pc = "failed"
                                    /\ CallsOf({"desc-perms", "grant-perms"}) = <<>>

\* C7's case: the second search fails to resolve after a resource was given
\* on the command line and the first search was resolved.
C7_Witness ==
    /\ pc = "failed"
    /\ FailedAt({"search"})
    /\ error.msg \in {"No matches", "Multiple matches"}
    /\ si = 1
    /\ resources # <<>>
    /\ grantees # <<>>

\* the key=value dicts of the searches of the command line
SearchDicts == KeyValuePairsToDicts(argv.search)

\* the grantee kinds of a service: the members of the registry's 'grantees'
GranteeKinds(service) == {SERVICE_MAP[service]["grantees"]}

Grantable(service, type) ==
    /\ type \in DOMAIN SERVICE_MAP[service]["desc-perms"]
    /\ type \in DOMAIN SERVICE_MAP[service]["grant-perms"]

\* search i names a type that is neither a grantee kind nor grantable for its service
Unsupported(i) ==
    /\ {"service", "type"} \subseteq DOMAIN SearchDicts[i]
    /\ SearchDicts[i]["service"] \in DOMAIN SERVICE_MAP
    /\ SearchDicts[i]["type"] \notin GranteeKinds(SearchDicts[i]["service"])
    /\ ~Grantable(SearchDicts[i]["service"], SearchDicts[i]["type"])

\* C8 as stated: a run with such a search fails with 'is not supported as a
\* resource' before any remote call is made.
C8_Original ==
    (pc # "main" /\ \E i \in 1..Len(argv.search) : Unsupported(i))
        => /\ pc = "failed"
           /\ error.msg = "is not supported as a resource"
           /\ calls = <<>>

\* C8 as amended: a run with such a search fails while the arguments are
\* validated, before any remote call is made (no identity lookup, listing,
\* describe or grant call, for this search or another); the error is never 'is
\* not supported as a resource': when that search is the first argument to
\* fail it is 'is not supported for search'.
C8_FailsBeforeRemoteCalls ==
    (pc # "main" /\ \E i \in 1..Len(argv.search) : Unsupported(i))
        => /\ pc = "failed"
           /\ FailedAt({"main"})
           /\ calls = <<>>
           /\ error.msg # "is not supported as a resource"
           /\ (argv.grantees = <<>> /\ argv.resources = <<>> /\ Unsupported(1))
                 => error = Uncaught(Exc("KeyError", "is not supported for search"), "main")

\* C8's case: a supported search comes first and the unsupported one second.
C8_Witness ==
    /\ pc = "failed"
    /\ Len(argv.search) = 2
    /\ ~Unsupported(1)
    /\ Unsupported(2)
    /\ error.msg = "is not supported for search"

\* list' is list with one element appended
Appended(list, list2) ==
    /\ Len(list2) = Len(list) + 1
    /\ SubSeq(list2, 1, Len(list)) = list

\* the records the last call, a listing, returned
Listed(cs) == cs[Len(cs)].result.value[SERVICE_MAP[cs[Len(cs)].client]["list"]
                                          [searches[si + 1].type].key]

\* C9: a search that is resolved has its identifier appended to exactly one
\* list: the grantee list if its type is a grantee kind of its service,
\* otherwise the resource list.
C9_SearchRouting ==
    [][(pc = "search" /\ ~Failed')
         => LET search == searches[si + 1]
                target == IF search.type \in GranteeKinds(search.service)
                          THEN "grantees" ELSE "resources"
                added == IF target = "grantees" THEN grantees'[Len(grantees')]
                         ELSE resources'[Len(resources')]
            IN  /\ target = "grantees" => (Appended(grantees, grantees')
                                           /\ resources' = resources)
                /\ target = "resources" => (Appended(resources, resources')
                                            /\ grantees' = grantees)
                /\ \E i \in 1..Len(Listed(calls')) : Listed(calls')[i].Arn = ArnStr(added)
       ]_vars

\* C9's case: a user search went to the grantee list and a dataset search to
\* the resource list.
C9_Witness ==
    /\ si = 2
    /\ ~Failed
    /\ Len(grantees) = Len(argv.grantees) + 1
    /\ Len(resources) = Len(argv.resources) + 1
    /\ grantees[Len(grantees)].resource_type = "user"
    /\ resources[Len(resources)].resource_type = "dataset"

\* the positions in calls of the calls of a verb
Positions(verb) == {k \in 1..Len(calls) : calls[k].verb = verb}

\* C10: the describe call of a resource is made once and has returned before
\* any grant call for that resource; every grant call carries the action list
\* selected from the answer to the describe call of its own resource.
C10_PerResourceOrdering ==
    /\ Cardinality(Positions("desc-perms")) <= ri
    /\ pc = "done" => Cardinality(Positions("desc-perms")) = Len(resources)
    /\ \A k \in Positions("desc-perms") :
          LET n == Cardinality({j \in Positions("desc-perms") : j <= k})
          IN  ResourceOf(calls[k]) = [account |-> resources[n].account_id,
                                      id |-> resources[n].resource_id]
    /\ \A k \in Positions("grant-perms") :
          \E j \in Positions("desc-perms") :
             /\ j < k
             /\ \A d \in Positions("desc-perms") : d <= j \/ d > k
             /\ ResourceOf(calls[j]) = ResourceOf(calls[k])
             /\ ~calls[j].result.raised
             /\ calls[k].params["GrantPermissions"][1].Actions
                   = BestPermissions(calls[j].result.value["Permissions"])

\* C10's case: two resources whose describe calls selected different action
\* lists, each granted to a grantee.
C10_Witness ==
    /\ pc = "done"
    /\ Len(resources) = 2
    /\ Len(CallsOf({"grant-perms"})) = 2
    /\ CallsOf({"grant-perms"})[1].params["GrantPermissions"][1].Actions
          # CallsOf({"grant-perms"})[2].params["GrantPermissions"][1].Actions

====
